---- MODULE Spec2Model ----
(***************************************************************************)
(* DocGuard-AI: the preprocessing service's /process endpoint              *)
(* (services/preprocessing/app/public/api.py), the pipeline coordinator it *)
(* awaits (services/preprocessing/app/private/pipeline.py, modelled from   *)
(* the design document, sections 4 and 5) and the layout service's         *)
(* /analyze endpoint                                                       *)
(* (services/paddleocr/app/main.py).                                       *)
(***************************************************************************)
EXTENDS Integers, Sequences, FiniteSets, TLC

VARIABLES
    \* --- Geometry Partitioner, applied to drawn inputs (SpecPartition)
    pPc,        \* "input" | "done"
    pIn,        \* [page_height, regions, max_segments, min_height]
    pOut,       \* the bands returned by partition
    \* --- layout service, POST /analyze (SpecAnalyze)
    aPc,        \* "validate" | "ready" | "predict" | "loop" | "respond" | "except" | "done"
    aReq,       \* [image_ctype, ready, decodable]: the upload and app.state
    aRaw,       \* parsing_res_list, the raw layout output
    aIdx,       \* position of the for loop in aRaw
    detections, \* the detections list built by the loop
    keptIdx,    \* history: for each detection, the index of its raw entry
    aExc,       \* the exception being handled, "none" if none
    aResponse,  \* [kind, detections]
    \* --- preprocessing service, POST /process (Spec)
    pc,         \* "validate" | "pipeline" | "layout" | "extract" | "respond" | "except" | "done"
    req,        \* [image_ctype, decodable, max_segments, min_height]
    backend,    \* the layout backend: [up, page_height, detections]
    bands,      \* the bands of the page
    inflight,   \* band indices whose extraction call is in flight
    retried,    \* band indices whose extraction call was retried
    results,    \* band index -> ExtractedContent, the results map
    completed,  \* history: band indices in the order their calls completed
    raised,     \* the exception raised inside the try block, "none" if none
    pipeOut,    \* the list run_preprocessing_pipeline_with_splits returns
    response,   \* what the caller of /process receives
    layoutCalls,    \* calls made to the layout backend
    extractCalls,   \* calls made to the content-extraction backend
    log         \* history: [cause, category] of the failed requests so far

partVars == <<pPc, pIn, pOut>>
anVars == <<aPc, aReq, aRaw, aIdx, detections, keptIdx, aExc, aResponse>>
pipeVars == <<pc, req, backend, bands, inflight, retried, results, completed, raised,
              pipeOut, response, layoutCalls, extractCalls, log>>
vars == <<partVars, anVars, pipeVars>>
notPartition == <<anVars, pipeVars>>
notAnalyze == <<partVars, pipeVars>>
notPipeline == <<partVars, anVars>>

----------------------------------------------------------------------------
(* Bounds *)

MaxPageHeight == 3
MaxRegions == 3
MaxRaw == 2
MaxInFlight == 2

Max(a, b) == IF a >= b THEN a ELSE b
Min(a, b) == IF a <= b THEN a ELSE b

----------------------------------------------------------------------------
(* Data model, section 3 *)

\* Horizontal extents a region may have (page width 2).
XSpans == {<<0, 1>>, <<1, 2>>}

\* Region: x1 < x2, y1 < y2, all coordinates within the page.
RegionsOn(page_height) ==
    { [x1 |-> xs[1], y1 |-> ys[1], x2 |-> xs[2], y2 |-> ys[2], label |-> "text"] :
        xs \in XSpans,
        ys \in { p \in (0..page_height) \X (0..page_height) : p[1] < p[2] } }

SeqsUpTo(S, n) == UNION { [1..k -> S] : k \in 0..n }

----------------------------------------------------------------------------
(* Geometry Partitioner, section 4.1 *)

\* Sort key: top coordinate y1, ties broken by x1 ascending.
Before(a, b) == a.y1 < b.y1 \/ (a.y1 = b.y1 /\ a.x1 < b.x1)

RECURSIVE InsertSorted(_, _, _)
InsertSorted(regions, s, k) ==
    IF s = <<>> THEN <<k>>
    ELSE IF Before(regions[k], regions[Head(s)]) THEN <<k>> \o s
    ELSE <<Head(s)>> \o InsertSorted(regions, Tail(s), k)

RECURSIVE SortPrefix(_, _)
SortPrefix(regions, n) ==
    IF n = 0 THEN <<>> ELSE InsertSorted(regions, SortPrefix(regions, n - 1), n)

\* The indices of regions, sorted by (y1, x1); equal keys keep their order.
SortedOrder(regions) == SortPrefix(regions, Len(regions))

\* A band is closed without the minimum-height test.
CanCloseNoMinHeight(height, nClosed, remaining, max_segments, min_height) ==
    remaining > 0 /\ nClosed + 1 < max_segments

\* A band is closed once its height reaches min_height and there remain
\* regions to start a new band with, without exceeding max_segments.
CanClose(height, nClosed, remaining, max_segments, min_height) ==
    height >= min_height /\ remaining > 0 /\ nClosed + 1 < max_segments

\* A new band starts at the top y1 of the next unassigned region.
NewBand(top) == [top |-> top, bottom |-> top, members |-> <<>>]

\* Pull the i-th region (in sorted order) into the current band cur, then
\* close the band, or keep pulling, or (after the last region) extend the
\* final band to page_height.
RECURSIVE Grow(_, _, _, _, _, _)
Grow(regions, order, in, i, closed, cur) ==
    LET r == regions[order[i]]
        grown == [top |-> cur.top,
                  bottom |-> Max(cur.bottom, r.y2),
                  members |-> Append(cur.members, order[i])]
        remaining == Len(order) - i
    IN  IF remaining = 0
          THEN Append(closed,
                      [grown EXCEPT !.bottom = Max(grown.bottom, in.page_height)])
        ELSE IF CanClose(grown.bottom - grown.top, Len(closed), remaining,
                         in.max_segments, in.min_height)
          THEN Grow(regions, order, in, i + 1, Append(closed, grown),
                    NewBand(regions[order[i + 1]].y1))
        ELSE Grow(regions, order, in, i + 1, closed, grown)

\* partition(page_height, page_width, regions, max_segments, min_height):
\* the ordered list of bands; a band's index is its position.
Partition(in) ==
    IF in.regions = <<>>
      THEN << [top |-> 0, bottom |-> in.page_height, members |-> <<>>] >>
      ELSE Grow(in.regions, SortedOrder(in.regions), in, 1, <<>>, NewBand(0))

PartitionIdle ==
    /\ pPc = "idle"
    /\ pIn = [page_height |-> 0, regions |-> <<>>, max_segments |-> 1, min_height |-> 1]
    /\ pOut = <<>>

NoResponse == [kind |-> "none", detail |-> "", segments |-> <<>>,
               total_segments |-> 0, status |-> ""]

PipelineIdle ==
    /\ pc = "idle"
    /\ req = [image_ctype |-> TRUE, decodable |-> TRUE, max_segments |-> 1, min_height |-> 1]
    /\ backend = [up |-> TRUE, page_height |-> 0, detections |-> <<>>]
    /\ bands = <<>>
    /\ inflight = {}
    /\ retried = {}
    /\ results = <<>>
    /\ completed = <<>>
    /\ raised = "none"
    /\ pipeOut = <<>>
    /\ response = NoResponse
    /\ layoutCalls = 0
    /\ extractCalls = 0
    /\ log = {}

----------------------------------------------------------------------------
(* Layout service: analyze_document, POST /analyze *)

\* A raw coordinate: a number, held in halves so that 3 stands for 1.5, or a
\* value int() rejects.
Num(h) == [kind |-> "num", h |-> h]
NotNumeric == [kind |-> "str", h |-> 0]     \* a non-numeric string
NullValue == [kind |-> "null", h |-> 0]     \* None
Infinity == [kind |-> "inf", h |-> 0]       \* float("inf")

\* int(v) truncates toward zero.
IntValue(v) == IF v.h >= 0 THEN v.h \div 2 ELSE -((-v.h) \div 2)

\* The exception int(v) raises, "none" if it converts.
IntError(v) ==
    CASE v.kind = "num" -> "none"
      [] v.kind = "str" -> "ValueError"
      [] v.kind = "null" -> "TypeError"
      [] v.kind = "inf" -> "OverflowError"

\* x1, y1, x2, y2 = map(int, vals): the items are converted one at a time as
\* the unpacking asks for them, four and then a fifth to see that there is
\* none; the first failing conversion raises, else a wrong count is a
\* ValueError.
RECURSIVE UnpackError(_, _)
UnpackError(vals, i) ==
    IF i > Len(vals) THEN (IF Len(vals) < 4 THEN "ValueError" ELSE "none")
    ELSE IF IntError(vals[i]) # "none" THEN IntError(vals[i])
    ELSE IF i = 5 THEN "ValueError"
    ELSE UnpackError(vals, i + 1)

\* BBox(x1, y1, x2, y2): every field is validated ge=0.
BBoxError(ints) ==
    IF \E k \in 1..4 : ints[k] < 0 THEN "ValidationError" ELSE "none"

\* The label read with obj["block_label"]: a missing label is a KeyError.
LabelOfStrict(obj) ==
    IF obj.label = "<missing>" THEN [exc |-> "KeyError", cls |-> ""]
    ELSE IF obj.label = "<null>" THEN [exc |-> "ValidationError", cls |-> ""]
    ELSE [exc |-> "none", cls |-> obj.label]

\* cls=obj.get("block_label", "unknown"), validated as a str by Detection.
LabelOf(obj) ==
    IF obj.label = "<missing>" THEN [exc |-> "none", cls |-> "unknown"]
    ELSE IF obj.label = "<null>" THEN [exc |-> "ValidationError", cls |-> ""]
    ELSE [exc |-> "none", cls |-> obj.label]

NoDetection(exc) == [exc |-> exc, bbox |-> <<>>, cls |-> ""]

\* The body of the try block for one raw entry: the Detection built, or the
\* exception raised.
BuildDetection(obj) ==
    IF obj.bbox.kind = "missing" THEN NoDetection("KeyError")
    ELSE IF obj.bbox.kind = "null" THEN NoDetection("TypeError")
    ELSE IF UnpackError(obj.bbox.val, 1) # "none"
      THEN NoDetection(UnpackError(obj.bbox.val, 1))
    ELSE LET ints == [k \in 1..4 |-> IntValue(obj.bbox.val[k])]
         IN  IF BBoxError(ints) # "none" THEN NoDetection(BBoxError(ints))
             ELSE IF LabelOf(obj).exc # "none" THEN NoDetection(LabelOf(obj).exc)
             ELSE [exc |-> "none", bbox |-> ints, cls |-> LabelOf(obj).cls]

\* except (KeyError, ValueError, TypeError); pydantic's ValidationError is a
\* ValueError.
Caught(exc) == exc \in {"KeyError", "ValueError", "TypeError", "ValidationError"}

\* Raw values of block_bbox and block_label the layout model's output may hold.
RawBoxes ==
    { [kind |-> "missing", val |-> <<>>],
      [kind |-> "null", val |-> <<>>],
      [kind |-> "list", val |-> <<Num(0), Num(2), Num(4), Num(6)>>],
      [kind |-> "list", val |-> <<Num(2), Num(0), Num(6), Num(4)>>],
      [kind |-> "list", val |-> <<Num(-1), Num(3), Num(5), Num(7)>>],
      [kind |-> "list", val |-> <<Num(0), Num(2), Num(4)>>],
      [kind |-> "list", val |-> <<Num(0), Num(2), Num(4), Num(6), Num(8)>>],
      [kind |-> "list", val |-> <<Num(0), NotNumeric, Num(4), Num(6)>>],
      [kind |-> "list", val |-> <<Num(0), Num(2), NullValue, Num(6)>>],
      [kind |-> "list", val |-> <<Num(-2), Num(2), Num(4), Num(6)>>],
      [kind |-> "list", val |-> <<Num(0), Num(2), Num(4), Infinity>>] }

RawLabels == {"<missing>", "<null>", "text", "table"}

RawEntries == [bbox : RawBoxes, label : RawLabels]

AnalyzeIdle ==
    /\ aPc = "idle"
    /\ aReq = [image_ctype |-> TRUE, ready |-> TRUE, decodable |-> TRUE]
    /\ aRaw = <<>>
    /\ aIdx = 0
    /\ detections = <<>>
    /\ keptIdx = <<>>
    /\ aExc = "none"
    /\ aResponse = [kind |-> "none", detections |-> <<>>]

InitAnalyze ==
    /\ aPc = "validate"
    /\ aReq \in [image_ctype : BOOLEAN, ready : BOOLEAN, decodable : BOOLEAN]
    /\ aRaw \in SeqsUpTo(RawEntries, MaxRaw)
    /\ aIdx = 0
    /\ detections = <<>>
    /\ keptIdx = <<>>
    /\ aExc = "none"
    /\ aResponse = [kind |-> "none", detections |-> <<>>]
    /\ PartitionIdle
    /\ PipelineIdle

\* The content type is not image/*: 400.
AnalyzeValidate ==
    /\ aPc = "validate"
    /\ IF aReq.image_ctype
         THEN aPc' = "ready" /\ UNCHANGED aResponse
         ELSE aPc' = "done" /\ aResponse' = [kind |-> "http400", detections |-> <<>>]
    /\ UNCHANGED <<aReq, aRaw, aIdx, detections, keptIdx, aExc>>
    /\ UNCHANGED notAnalyze

\* PPStructure is not initialised: 503.
AnalyzeReady ==
    /\ aPc = "ready"
    /\ IF aReq.ready
         THEN aPc' = "predict" /\ UNCHANGED aResponse
         ELSE aPc' = "done" /\ aResponse' = [kind |-> "http503", detections |-> <<>>]
    /\ UNCHANGED <<aReq, aRaw, aIdx, detections, keptIdx, aExc>>
    /\ UNCHANGED notAnalyze

\* Image.open, predict, result.get(...): an undecodable image raises.
AnalyzePredict ==
    /\ aPc = "predict"
    /\ IF aReq.decodable
         THEN aPc' = "loop" /\ aIdx' = 1 /\ UNCHANGED aExc
         ELSE aPc' = "except" /\ aExc' = "UnidentifiedImageError" /\ UNCHANGED aIdx
    /\ detections' = <<>>
    /\ keptIdx' = <<>>
    /\ UNCHANGED <<aReq, aRaw, aResponse>>
    /\ UNCHANGED notAnalyze

\* One iteration of: for obj in layout_res.
AnalyzeLoop ==
    /\ aPc = "loop"
    /\ aIdx <= Len(aRaw)
    /\ LET d == BuildDetection(aRaw[aIdx])
       IN  IF d.exc = "none"
             THEN /\ detections' = Append(detections, [bbox |-> d.bbox, cls |-> d.cls])
                  /\ keptIdx' = Append(keptIdx, aIdx)
                  /\ aIdx' = aIdx + 1
                  /\ UNCHANGED <<aPc, aExc>>
           ELSE IF Caught(d.exc)
             THEN /\ aIdx' = aIdx + 1
                  /\ UNCHANGED <<aPc, aExc, detections, keptIdx>>
           ELSE /\ aPc' = "except"
                /\ aExc' = d.exc
                /\ UNCHANGED <<aIdx, detections, keptIdx>>
    /\ UNCHANGED <<aReq, aRaw, aResponse>>
    /\ UNCHANGED notAnalyze

\* return AnalyzeResponse(detections=detections, ...).
AnalyzeRespond ==
    /\ aPc = "loop"
    /\ aIdx > Len(aRaw)
    /\ aPc' = "done"
    /\ aResponse' = [kind |-> "ok", detections |-> detections]
    /\ UNCHANGED <<aReq, aRaw, aIdx, detections, keptIdx, aExc>>
    /\ UNCHANGED notAnalyze

\* except Exception: 500.
AnalyzeExcept ==
    /\ aPc = "except"
    /\ aPc' = "done"
    /\ aResponse' = [kind |-> "http500", detections |-> <<>>]
    /\ UNCHANGED <<aReq, aRaw, aIdx, detections, keptIdx, aExc>>
    /\ UNCHANGED notAnalyze

NextAnalyze ==
    \/ AnalyzeValidate
    \/ AnalyzeReady
    \/ AnalyzePredict
    \/ AnalyzeLoop
    \/ AnalyzeRespond
    \/ AnalyzeExcept

SpecAnalyze == InitAnalyze /\ [][NextAnalyze]_vars

----------------------------------------------------------------------------
(* Preprocessing service: process_document, POST /process, and the         *)
(* pipeline coordinator it awaits                                          *)

\* raise HTTPException(status_code=400, detail="File must be an image ...").
InvalidFileType ==
    [kind |-> "http400", detail |-> "File must be an image", segments |-> <<>>,
     total_segments |-> 0, status |-> ""]

\* for segment_image, segment_list in results: only the last list is kept.
ExtractSegmentsLastOnly(res) ==
    IF res = <<>> THEN <<>> ELSE res[Len(res)][2]

\* for segment_image, segment_list in results: each list goes to the front.
RECURSIVE ExtractSegmentsPrepend(_)
ExtractSegmentsPrepend(res) ==
    IF res = <<>> THEN <<>>
    ELSE ExtractSegmentsPrepend(Tail(res)) \o Head(res)[2]

\* segments = []; for segment_image, segment_list in results:
\*     segments.extend(segment_list)
RECURSIVE ExtractSegments(_)
ExtractSegments(res) ==
    IF res = <<>> THEN <<>>
    ELSE Head(res)[2] \o ExtractSegments(Tail(res))

\* return ProcessResponse(segments=segments, total_segments=len(segments),
\*                        elapsed_ms=elapsed_ms, status="success")
ProcessResponse(segments) ==
    [kind |-> "ok", detail |-> "", segments |-> segments,
     total_segments |-> Len(segments), status |-> "success"]

\* The handler answers with an empty result marked failed.
DegradedResponse(e) ==
    [kind |-> "ok", detail |-> e, segments |-> <<>>,
     total_segments |-> 0, status |-> "failed"]

\* except Exception as e: raise HTTPException(status_code=500,
\*     detail=f"Failed to process document: {str(e)}")
FailedToProcess(e) ==
    [kind |-> "http500", detail |-> e, segments |-> <<>>,
     total_segments |-> 0, status |-> ""]

\* Region Classifier Adapter, section 4.2: coordinates are clipped to
\* [0, page dimension].
Clip(v, dim) == Max(0, Min(v, dim))

Normalize(dets, page_height) ==
    [k \in 1..Len(dets) |->
        [x1 |-> Clip(dets[k].x1, 2), y1 |-> Clip(dets[k].y1, page_height),
         x2 |-> Clip(dets[k].x2, 2), y2 |-> Clip(dets[k].y2, page_height),
         label |-> dets[k].label]]

\* Input error, section 7: the bounds are out of range or the payload is not
\* a decodable image.
InputError(r) == r.max_segments < 1 \/ r.min_height < 1 \/ ~r.decodable

\* ExtractedContent, section 4.3, for the crop a call carried: the text read
\* from that crop, or text "" and a populated error field.
Extracted(crop) == [crop |-> crop, text |-> "text", error |-> "none"]
ExtractionFailed(crop, reason) == [crop |-> crop, text |-> "", error |-> reason]
NotYet == [crop |-> 0, text |-> "", error |-> "pending"]

\* SegmentRecord: band geometry + member region metadata + ExtractedContent.
SegmentRecord(i) ==
    [band |-> i,
     bbox |-> <<bands[i].top, bands[i].bottom>>,
     segment_type |-> "horizontal_segment",
     content |-> results[i],
     bbox_info |-> bands[i].members]

\* The cause a failed request is logged under.
FailureCause ==
    IF raised = "UpstreamUnavailable" THEN "unreachable_backend"
    ELSE IF ~req.decodable THEN "undecodable_image"
    ELSE "other"

Logged(category) ==
    IF FailureCause = "other" THEN log
    ELSE log \cup {[cause |-> FailureCause, category |-> category]}

\* What the layout backend answers with for the pages of the model.
Det(y1, y2) == [x1 |-> 0, y1 |-> y1, x2 |-> 2, y2 |-> y2, label |-> "text"]

LayoutAnswers ==
    { <<>>, << Det(0, 1), Det(1, 2), Det(2, MaxPageHeight + 1) >> }

Requests ==
    [image_ctype : BOOLEAN, decodable : BOOLEAN,
     max_segments : {0, 1, MaxRegions}, min_height : {0, 1}]

Backends ==
    [up : BOOLEAN, page_height : {MaxPageHeight}, detections : LayoutAnswers]

FreshRequest ==
    /\ pc = "validate"
    /\ req \in Requests
    /\ backend \in Backends
    /\ bands = <<>>
    /\ inflight = {}
    /\ retried = {}
    /\ results = <<>>
    /\ completed = <<>>
    /\ raised = "none"
    /\ pipeOut = <<>>
    /\ response = NoResponse
    /\ layoutCalls = 0
    /\ extractCalls = 0

Init ==
    /\ FreshRequest
    /\ log = {}
    /\ PartitionIdle
    /\ AnalyzeIdle

\* if not image.content_type or not image.content_type.startswith("image/")
ProcessValidate ==
    /\ pc = "validate"
    /\ IF req.image_ctype
         THEN pc' = "pipeline" /\ UNCHANGED <<response, log>>
         ELSE /\ pc' = "done"
              /\ response' = InvalidFileType
              /\ log' = Logged("http400")
    /\ UNCHANGED <<req, backend, bands, inflight, retried, results, completed, raised,
                   pipeOut, layoutCalls, extractCalls>>
    /\ UNCHANGED notPipeline

\* image.read() and the pipeline's entry: an input error is raised before
\* any backend is called.
PipelineCheckInput ==
    /\ pc = "pipeline"
    /\ IF InputError(req)
         THEN pc' = "except" /\ raised' = "InputError"
         ELSE pc' = "layout" /\ UNCHANGED raised
    /\ UNCHANGED <<req, backend, bands, inflight, retried, results, completed,
                   pipeOut, response, layoutCalls, extractCalls, log>>
    /\ UNCHANGED notPipeline

\* The one call to the layout backend, then normalize and partition.
PipelineLayout ==
    /\ pc = "layout"
    /\ layoutCalls' = layoutCalls + 1
    /\ IF backend.up
         THEN /\ bands' = Partition([page_height |-> backend.page_height,
                                     regions |-> Normalize(backend.detections,
                                                           backend.page_height),
                                     max_segments |-> req.max_segments,
                                     min_height |-> req.min_height])
              /\ results' = [i \in 1..Len(bands') |-> NotYet]
              /\ pc' = "extract"
              /\ UNCHANGED raised
         ELSE /\ raised' = "UpstreamUnavailable"
              /\ pc' = "except"
              /\ UNCHANGED <<bands, results>>
    /\ UNCHANGED <<req, backend, inflight, retried, completed, pipeOut, response,
                   extractCalls, log>>
    /\ UNCHANGED notPipeline

Pending(i) == results[i] = NotYet /\ i \notin inflight

\* One extraction call is issued for band i, carrying the band's crop, while
\* fewer than MaxInFlight calls are in flight.
Dispatch(i) ==
    /\ pc = "extract"
    /\ Pending(i)
    /\ Cardinality(inflight) < MaxInFlight
    /\ inflight' = inflight \cup {i}
    /\ extractCalls' = extractCalls + 1
    /\ UNCHANGED <<pc, req, backend, bands, retried, results, completed, raised,
                   pipeOut, response, layoutCalls, log>>
    /\ UNCHANGED notPipeline

\* The call for band i succeeds: its result is stored under the band's key.
CompleteOk(i) ==
    /\ pc = "extract"
    /\ i \in inflight
    /\ results' = [results EXCEPT ![i] = Extracted(i)]
    /\ inflight' = inflight \ {i}
    /\ completed' = Append(completed, i)
    /\ UNCHANGED <<pc, req, backend, bands, retried, raised, pipeOut, response,
                   layoutCalls, extractCalls, log>>
    /\ UNCHANGED notPipeline

\* The call for band i times out or loses its connection: it is retried
\* once, and the second failure is captured in the result.
CompleteTransient(i) ==
    /\ pc = "extract"
    /\ i \in inflight
    /\ IF i \in retried
         THEN /\ results' = [results EXCEPT ![i] = ExtractionFailed(i, "timeout")]
              /\ inflight' = inflight \ {i}
              /\ completed' = Append(completed, i)
              /\ UNCHANGED <<retried, extractCalls>>
         ELSE /\ retried' = retried \cup {i}
              /\ extractCalls' = extractCalls + 1
              /\ UNCHANGED <<results, inflight, completed>>
    /\ UNCHANGED <<pc, req, backend, bands, raised, pipeOut, response,
                   layoutCalls, log>>
    /\ UNCHANGED notPipeline

\* The call for band i gets a non-success or malformed response: not retried.
CompleteRejected(i) ==
    /\ pc = "extract"
    /\ i \in inflight
    /\ results' = [results EXCEPT ![i] = ExtractionFailed(i, "bad_response")]
    /\ inflight' = inflight \ {i}
    /\ completed' = Append(completed, i)
    /\ UNCHANGED <<pc, req, backend, bands, retried, raised, pipeOut, response,
                   layoutCalls, extractCalls, log>>
    /\ UNCHANGED notPipeline

\* Every band has its result: one (crop, [SegmentRecord]) pair per band, in
\* band order, is returned to process_document.
PipelineMerge ==
    /\ pc = "extract"
    /\ \A i \in 1..Len(bands) : results[i] # NotYet
    /\ pipeOut' = [i \in 1..Len(bands) |-> <<i, <<SegmentRecord(i)>>>>]
    /\ pc' = "respond"
    /\ UNCHANGED <<req, backend, bands, inflight, retried, results, completed, raised,
                   response, layoutCalls, extractCalls, log>>
    /\ UNCHANGED notPipeline

\* The segments are extracted from the results and returned.
ProcessRespond ==
    /\ pc = "respond"
    /\ response' = ProcessResponse(ExtractSegments(pipeOut))
    /\ pc' = "done"
    /\ UNCHANGED <<req, backend, bands, inflight, retried, results, completed, raised,
                   pipeOut, layoutCalls, extractCalls, log>>
    /\ UNCHANGED notPipeline

\* except Exception as e.
ProcessExcept ==
    /\ pc = "except"
    /\ response' = FailedToProcess(raised)
    /\ log' = Logged(response'.kind)
    /\ pc' = "done"
    /\ UNCHANGED <<req, backend, bands, inflight, retried, results, completed, raised,
                   pipeOut, layoutCalls, extractCalls>>
    /\ UNCHANGED notPipeline

\* The next request arrives: nothing of the previous one is kept.
NextRequest ==
    /\ pc = "done"
    /\ pc' = "validate"
    /\ req' \in Requests
    /\ backend' \in Backends
    /\ bands' = <<>>
    /\ inflight' = {}
    /\ retried' = {}
    /\ results' = <<>>
    /\ completed' = <<>>
    /\ raised' = "none"
    /\ pipeOut' = <<>>
    /\ response' = NoResponse
    /\ layoutCalls' = 0
    /\ extractCalls' = 0
    /\ UNCHANGED log
    /\ UNCHANGED notPipeline

Next ==
    \/ ProcessValidate
    \/ PipelineCheckInput
    \/ PipelineLayout
    \/ \E i \in 1..Len(bands) : Dispatch(i)
    \/ \E i \in 1..Len(bands) : CompleteOk(i)
    \/ \E i \in 1..Len(bands) : CompleteTransient(i)
    \/ \E i \in 1..Len(bands) : CompleteRejected(i)
    \/ PipelineMerge
    \/ ProcessRespond
    \/ ProcessExcept
    \/ NextRequest

Spec == Init /\ [][Next]_vars

----------------------------------------------------------------------------
(* SpecPartition: partition applied to every bounded input *)

PartitionInputs ==
    [page_height : {MaxPageHeight},
     regions : SeqsUpTo(RegionsOn(MaxPageHeight), MaxRegions),
     max_segments : {1, 2, MaxRegions},
     min_height : {1, 2, MaxPageHeight}]

InitPartition ==
    /\ pPc = "input"
    /\ pIn \in PartitionInputs
    /\ pOut = <<>>
    /\ AnalyzeIdle
    /\ PipelineIdle

ApplyPartition ==
    /\ pPc = "input"
    /\ pOut' = Partition(pIn)
    /\ pPc' = "done"
    /\ UNCHANGED pIn
    /\ UNCHANGED notPartition

NextPartition == ApplyPartition

SpecPartition == InitPartition /\ [][NextPartition]_vars

----------------------------------------------------------------------------
(* Claims about the Geometry Partitioner (SpecPartition) *)

NBands == Len(pOut)
Height(b) == b.bottom - b.top
RegionIds == 1..Len(pIn.regions)
BandsOf(r) == { b \in 1..NBands : \E k \in 1..Len(pOut[b].members) : pOut[b].members[k] = r }

\* Overlap area of a region with a (full-width) band.
OverlapArea(r, b) ==
    (r.x2 - r.x1) * Max(0, Min(r.y2, b.bottom) - Max(r.y1, b.top))

\* C1: partition returns 1 <= N <= max_segments bands whose vertical spans,
\* in index order, are contiguous and non-overlapping: the first top is 0,
\* each band's top equals the previous band's bottom, and the last bottom is
\* page_height, so that they exactly cover [0, page_height).
C1_BandsTilePage ==
    pPc = "done" =>
        /\ 1 <= NBands /\ NBands <= pIn.max_segments
        /\ pOut[1].top = 0
        /\ pOut[NBands].bottom = pIn.page_height
        /\ \A i \in 1..(NBands - 1) : pOut[i + 1].top = pOut[i].bottom

\* C2: every region is a member of exactly one band, and of the band with
\* which it has the larger overlap area, the earlier band on equal overlap.
C2_ExactlyOneBandLargestOverlap ==
    pPc = "done" =>
        \A r \in RegionIds :
            /\ Cardinality(BandsOf(r)) = 1
            /\ \A b \in BandsOf(r) : \A c \in (1..NBands) \ {b} :
                 \/ OverlapArea(pIn.regions[r], pOut[b]) > OverlapArea(pIn.regions[r], pOut[c])
                 \/ /\ OverlapArea(pIn.regions[r], pOut[b]) = OverlapArea(pIn.regions[r], pOut[c])
                    /\ b < c

\* C3: every band returned except possibly the last has height >= min_height,
\* also when regions are folded into a band to respect max_segments.
C3_MinHeightExceptLast ==
    pPc = "done" =>
        \A i \in 1..(NBands - 1) : Height(pOut[i]) >= pIn.min_height

\* C3 witness: max_segments is exhausted by at least two bands, the last of
\* which had several regions folded into it, with min_height above 1.
C3_Witness ==
    /\ pPc = "done"
    /\ NBands >= 2 /\ NBands = pIn.max_segments
    /\ Len(pOut[NBands].members) >= 2
    /\ pIn.min_height >= 2

----------------------------------------------------------------------------
(* Claims about the layout service's normalisation (SpecAnalyze) *)

LacksBBox(obj) == obj.bbox.kind = "missing"
LacksLabel(obj) == obj.label = "<missing>"

\* A bounding box as the layout contract gives it: four non-negative integers.
IsIntegerBox(obj) ==
    /\ obj.bbox.kind = "list"
    /\ Len(obj.bbox.val) = 4
    /\ \A k \in 1..4 : /\ obj.bbox.val[k].kind = "num"
                       /\ obj.bbox.val[k].h >= 0
                       /\ obj.bbox.val[k].h % 2 = 0

WellFormed(obj) == IsIntegerBox(obj) /\ obj.label \in {"text", "table"}

Kept(i) == \E k \in 1..Len(keptIdx) : keptIdx[k] = i

\* The request reached the loop over the raw entries.
Normalised == aPc = "done" /\ aReq.image_ctype /\ aReq.ready /\ aReq.decodable

InOriginalOrder ==
    /\ Len(aResponse.detections) = Len(keptIdx)
    /\ \A j, k \in 1..Len(keptIdx) : j < k => keptIdx[j] < keptIdx[k]

OnlyMissingFields ==
    \A i \in 1..Len(aRaw) :
        /\ LacksBBox(aRaw[i]) \/ IsIntegerBox(aRaw[i])
        /\ LacksLabel(aRaw[i]) \/ aRaw[i].label \in {"text", "table"}

----------------------------------------------------------------------------
(* Claims about the /process operation (Spec) *)

Returned == pc = "done" /\ response.kind = "ok"
Failed(seg) == seg.content.error # "none"
NFailed == Cardinality({ i \in 1..Len(response.segments) : Failed(response.segments[i]) })

\* C4: whatever the completion order of the concurrent extraction calls,
\* with or without failures, the i-th segment of the result is the one built
\* from band i and from the extraction result of band i's own crop.
C4_SegmentsInBandOrder ==
    Returned =>
        /\ Len(response.segments) = Len(bands)
        /\ \A i \in 1..Len(response.segments) :
             /\ response.segments[i].band = i
             /\ response.segments[i].bbox = <<bands[i].top, bands[i].bottom>>
             /\ response.segments[i].content.crop = i

\* C4 witness: three bands whose calls completed last band first, one of them
\* failing, and the result returned.
C4_Witness ==
    /\ Returned
    /\ Len(bands) = 3
    /\ completed = <<3, 2, 1>>
    /\ NFailed = 1

\* C5: the status of a returned result is "success" exactly when no band's
\* extraction reported an error, and "partial" when some but not all did.
C5_StatusReflectsFailures ==
    Returned =>
        /\ response.status = "success" <=> NFailed = 0
        /\ (0 < NFailed /\ NFailed < Len(response.segments)) =>
              response.status = "partial"

\* C6: if the layout backend call fails, the request fails with the error of
\* the unavailable upstream, no content-extraction call is dispatched, no
\* segments are produced and no result is returned.
C6_LayoutFailureIsFatal ==
    (layoutCalls > 0 /\ ~backend.up) =>
        /\ extractCalls = 0
        /\ pipeOut = <<>>
        /\ response.segments = <<>>
        /\ response.kind # "ok"
        /\ pc = "done" =>
             response.kind = "http500" /\ response.detail = "UpstreamUnavailable"

\* C6 witness: the request has ended after the layout backend was called and
\* found unreachable.
C6_Witness ==
    /\ pc = "done"
    /\ layoutCalls = 1 /\ ~backend.up
    /\ raised = "UpstreamUnavailable"

\* C7: a request whose max_segments or min_height is below 1, or whose
\* payload is not a decodable image, is reported as an input error (400) and
\* makes no call to the layout or the content-extraction backend.
C7_InputErrorReported ==
    (pc = "done" /\ InputError(req)) =>
        /\ response.kind = "http400"
        /\ layoutCalls = 0
        /\ extractCalls = 0

\* C8: no two requests, one failing for an undecodable image and one for an
\* unreachable backend, end in the same failure category, and neither ends in
\* a result.
C8_DistinctFailureCategories ==
    /\ \A a, b \in log :
         (a.cause = "undecodable_image" /\ b.cause = "unreachable_backend") =>
             a.category # b.category
    /\ \A a \in log : a.category # "ok"

\* C9: the result holds exactly one SegmentRecord per band: total_segments
\* equals the number of entries in segments and the number of bands, whether
\* or not some bands' extractions failed.
C9_OneSegmentPerBand ==
    Returned =>
        /\ response.total_segments = Len(response.segments)
        /\ response.total_segments = Len(bands)
        /\ \A i \in 1..Len(bands) :
             Cardinality({ k \in 1..Len(response.segments) :
                             response.segments[k].band = i }) = 1

\* C9 witness: a result for three bands, two of whose extractions failed.
C9_Witness ==
    /\ Returned
    /\ Len(bands) = 3
    /\ NFailed = 2
    /\ response.total_segments = 3

====
